---- MODULE Spec2Model ----
(***************************************************************************)
(* A model of three pcommands of tools/batools/pcommand2.py:               *)
(*   clean_orphaned_assets    manifest-diff removal of orphaned assets     *)
(*   win_ci_install_prereqs   selection and fetch of CI prerequisites      *)
(*   update_cmake_prefab_lib  mtime-based staging of the prefab library    *)
(* Paths and targets are strings, handled with the same prefix, substring  *)
(* and slice operations the Python code applies to them.                   *)
(***************************************************************************)
EXTENDS Integers, Sequences, FiniteSets, TLC

VARIABLES
    \* ---- the filesystem under PROJROOT seen by clean_orphaned_assets
    rootExists,   \* build/assets exists
    dirs,         \* existing directories below build/assets (full paths)
    files,        \* existing files below build/assets (full paths)
    pubFile,      \* src/assets/.asset_manifest_public.json
    privFile,     \* src/assets/.asset_manifest_private.json
    \* ---- one call of clean_orphaned_assets
    pc,           \* "idle", "walk", "files", "prune", "done", "error"
    err,          \* what raised: "", "manifest", "unlink", "find"
    manifest,     \* the local variable manifest
    stack,        \* directories os.walk still has to list, next first
    curRoot,      \* root of the os.walk triple being processed
    pending,      \* fnames of that triple not yet looked at
    pruneTodo,    \* directories find still has to visit, next first
    \* ---- history of the calls
    run,          \* number of the current call
    files0,       \* files when the current call started
    dirs0,        \* dirs when the current call started
    rootExists0,  \* rootExists when the current call started
    listed,       \* paths os.walk has yielded in the current call
    unlinked,     \* paths the current call has unlinked
    prevUnlinked, \* paths the call before it unlinked
    envOps,       \* steps other processes have taken
    envMade,      \* files other processes created, after os.walk first
                  \* yielded, at paths it had not yielded
    unlinkedMade, \* the files among those that the current call has unlinked
    \* ---- update_cmake_prefab_lib: the clock and the two files
    now,          \* the system clock
    src,          \* build/prefab/lib/<platform><suffix>/<mode>/libballistica_plus.a
    libdirExists, \* <builddir>/prefablib exists
    dst,          \* <builddir>/prefablib/libballistica_plus.a
    \* ---- history of its calls
    stOutcome,    \* how the last call ended
    stPrev,       \* how the call before it ended
    stRebuilt,    \* make rewrote the target in the last call
    stSrc,        \* src when the last call compared the times
    stDst,        \* dst when the last call started
    stLibdir,     \* libdirExists when the last call started
    \* ---- win_ci_install_prereqs
    metaPub,      \* src/meta/.meta_manifest_public.json
    metaPriv,     \* src/meta/.meta_manifest_private.json
    ppc,          \* "idle", "fetch", "done", "error"
    perr,         \* what raised: "", "manifest", "fetch"
    todo,         \* members of needed_targets the loop has not reached
    fetched,      \* how often get_target was called, per target
    failed,       \* targets whose get_target raised
    lateFetches   \* get_target calls started after one had raised

cleanVars == <<rootExists, dirs, files, pubFile, privFile, pc, err, manifest,
               stack, curRoot, pending, pruneTodo, run, files0, dirs0,
               rootExists0, listed, unlinked, prevUnlinked, envOps,
               envMade, unlinkedMade>>

stageVars == <<now, src, libdirExists, dst, stOutcome, stPrev, stRebuilt, stSrc,
               stDst, stLibdir>>

prereqVars == <<metaPub, metaPriv, ppc, perr, todo, fetched, failed, lateFetches>>

vars == <<cleanVars, stageVars, prereqVars>>

\* what each command leaves alone
notCleanVars == <<stageVars, prereqVars>>
notStageVars == <<cleanVars, prereqVars>>
notPrereqVars == <<cleanVars, stageVars>>

----------------------------------------------------------------------------
(* Bounds of the model. *)

MaxRuns == 2
MaxEnvOps == 2
MaxTime == 3
MaxVer == 2
MaxMetaLen == 2

----------------------------------------------------------------------------
(* String helpers: Python's str.startswith, the in operator and s[n:]. *)

StartsWith(s, p) == Len(s) >= Len(p) /\ SubSeq(s, 1, Len(p)) = p

Contains(s, sub) ==
    \E i \in 1..(Len(s) - Len(sub) + 1) : SubSeq(s, i, i + Len(sub) - 1) = sub

SliceFrom(s, n) == SubSeq(s, n + 1, Len(s))

\* os.path.join(root, fname) on a POSIX host
Join(root, fname) == root \o "/" \o fname

\* every ordering of a finite set, as sequences
Orders(S) ==
    {s \in [1..Cardinality(S) -> S] : \A i, j \in DOMAIN s : s[i] = s[j] => i = j}

----------------------------------------------------------------------------
(* update_cmake_prefab_lib *)

\* a file: whether it exists, its mtime and the build its content is from
\* (ver -1: the remains of a copy that failed)
NoFile == [exists |-> FALSE, mtime |-> 0, ver |-> 0]
File(t, v) == [exists |-> TRUE, mtime |-> t, ver |-> v]

\* faulty variant: equal times count as out of date
NeedsUpdateOnEqual(time1, dstExists, time2) == ~(dstExists /\ time1 < time2)

\* faulty variant: update is never cleared
NeedsUpdateAlways(time1, dstExists, time2) == TRUE

\* lines 257-262: update stays True unless libpath exists and time1 <= time2
NeedsUpdate(time1, dstExists, time2) == ~(dstExists /\ time1 <= time2)

StageIdle ==
    /\ now = 0
    /\ src = NoFile
    /\ libdirExists = FALSE
    /\ dst = NoFile
    /\ stOutcome = "none"
    /\ stPrev = "none"
    /\ stRebuilt = FALSE
    /\ stSrc = NoFile
    /\ stDst = NoFile
    /\ stLibdir = FALSE

\* files carry times the clock has shown; a library in prefablib is from
\* the current build of the target or from an older one
InitStage ==
    /\ now = 1
    /\ src \in {NoFile} \cup {File(t, 1) : t \in 0..1}
    /\ dst \in {NoFile} \cup {File(t, v) : t \in 0..1, v \in 0..1}
    /\ libdirExists \in BOOLEAN
    /\ dst.exists => libdirExists
    /\ stOutcome = "none"
    /\ stPrev = "none"
    /\ stRebuilt = FALSE
    /\ stSrc = NoFile
    /\ stDst = NoFile
    /\ stLibdir = FALSE

StageHistory(outcome, rebuilt, srcSeen) ==
    /\ stOutcome' = outcome
    /\ stPrev' = stOutcome
    /\ stRebuilt' = rebuilt
    /\ stSrc' = srcSeen
    /\ stDst' = dst
    /\ stLibdir' = libdirExists

\* lines 231-241: a bad argument list raises CleanError before anything runs
StageBadArgs ==
    /\ UNCHANGED notStageVars
    /\ StageHistory("argerr", FALSE, src)
    /\ UNCHANGED <<now, src, libdirExists, dst>>

\* line 252: make fails and check=True raises
StageMakeFails ==
    /\ UNCHANGED notStageVars
    /\ \E t \in now..MaxTime : now' = t
    /\ StageHistory("makefail", FALSE, src)
    /\ UNCHANGED <<src, libdirExists, dst>>

\* lines 252-267 after make succeeded at time t1 leaving the target as s:
\* compare the times, then makedirs and cp at time t2
StageFrom(s, rebuilt, t1) ==
    IF NeedsUpdate(s.mtime, dst.exists, dst.mtime)
      THEN \E t2 \in t1..MaxTime :
             /\ now' = t2
             /\ libdirExists' = TRUE
             /\ \/ /\ dst' = File(t2, s.ver)
                   /\ StageHistory("copied", rebuilt, s)
                \/ /\ dst' \in {dst, File(t2, -1)}
                   /\ StageHistory("cpfail", rebuilt, s)
      ELSE /\ now' = t1
           /\ StageHistory("skipped", rebuilt, s)
           /\ UNCHANGED <<libdirExists, dst>>

\* make finds the target up to date
StageUpToDate ==
    /\ UNCHANGED notStageVars
    /\ src.exists
    /\ \E t1 \in now..MaxTime : StageFrom(src, FALSE, t1)
    /\ UNCHANGED src

\* make rebuilds the target
StageRebuilt ==
    /\ UNCHANGED notStageVars
    /\ src.ver < MaxVer
    /\ \E t1 \in now..MaxTime :
         /\ src' = File(t1, src.ver + 1)
         /\ StageFrom(src', TRUE, t1)

----------------------------------------------------------------------------
(* win_ci_install_prereqs *)

\* lines 177-182
LibDbgWin32 == "build/prefab/lib/windows/Debug_Win32"

FixedTargets ==
    { LibDbgWin32 \o "/BallisticaKitGenericPlus.lib",
      LibDbgWin32 \o "/BallisticaKitGenericPlus.pdb",
      "ballisticakit-windows/Generic/BallisticaKit.ico" }

\* what the meta manifests may list
MetaTargets ==
    { "src/ballistica/base/mgen/a.h",
      "src/assets/ba_data/python/ba/_mgen/e.py",
      "src/ballistica/base/a.cc",
      "src/assets/ba_data/python/ba/mgen/e.py",
      "ballisticakit-windows/Generic/BallisticaKit.ico" }

AllTargets == FixedTargets \cup MetaTargets

MetaLists == UNION {[1..n -> MetaTargets] : n \in 0..MaxMetaLen}

MetaFiles ==
    {[kind |-> "missing", entries |-> <<>>], [kind |-> "invalid", entries |-> <<>>]}
    \cup {[kind |-> "ok", entries |-> l] : l \in MetaLists}

\* faulty variant: the '/mgen/' and '/_mgen/' tests are dropped
IsGeneratedByPrefixOnly(target) ==
    \/ StartsWith(target, "src/ballistica/")
    \/ StartsWith(target, "src/assets/ba_data/python/")

\* lines 195-198
IsGenerated(target) ==
    \/ StartsWith(target, "src/ballistica/") /\ Contains(target, "/mgen/")
    \/ StartsWith(target, "src/assets/ba_data/python/") /\ Contains(target, "/_mgen/")

\* lines 178-199: needed_targets after the loop over meta_public + meta_private
NeededTargets(metaPublic, metaPrivate) ==
    LET both == metaPublic \o metaPrivate IN
      FixedTargets \cup {both[i] : i \in {j \in DOMAIN both : IsGenerated(both[j])}}

\* faulty variant: a get_target that raises is ignored
AfterFetchIgnoringErrors(ok, rest) == IF rest = {} THEN "done" ELSE "fetch"

\* lines 201-202: an exception of get_target leaves the loop and the function
AfterFetch(ok, rest) ==
    IF ~ok THEN "error" ELSE IF rest = {} THEN "done" ELSE "fetch"

PrereqCallIdle ==
    /\ ppc = "idle"
    /\ perr = ""
    /\ todo = {}
    /\ fetched = [t \in AllTargets |-> 0]
    /\ failed = {}
    /\ lateFetches = 0

PrereqIdle ==
    /\ metaPub = [kind |-> "missing", entries |-> <<>>]
    /\ metaPriv = [kind |-> "missing", entries |-> <<>>]
    /\ PrereqCallIdle

InitPrereq ==
    /\ metaPub \in MetaFiles
    /\ metaPriv \in MetaFiles
    /\ PrereqCallIdle

\* lines 177-199: read both meta manifests and build needed_targets
CallPrereqs ==
    /\ UNCHANGED notPrereqVars
    /\ ppc = "idle"
    /\ IF metaPub.kind = "ok" /\ metaPriv.kind = "ok"
         THEN /\ todo' = NeededTargets(metaPub.entries, metaPriv.entries)
              /\ ppc' = "fetch"
              /\ perr' = ""
         ELSE /\ todo' = {}
              /\ ppc' = "error"
              /\ perr' = "manifest"
    /\ UNCHANGED <<metaPub, metaPriv, fetched, failed, lateFetches>>

\* lines 201-202: the loop takes the next target and calls get_target
Fetch ==
    /\ UNCHANGED notPrereqVars
    /\ ppc = "fetch"
    /\ \E target \in todo, ok \in BOOLEAN :
         /\ todo' = todo \ {target}
         /\ fetched' = [fetched EXCEPT ![target] = @ + 1]
         /\ failed' = IF ok THEN failed ELSE failed \cup {target}
         /\ lateFetches' = IF failed # {} THEN lateFetches + 1 ELSE lateFetches
         /\ ppc' = AfterFetch(ok, todo')
         /\ perr' = IF ppc' = "error" THEN "fetch" ELSE perr
    /\ UNCHANGED <<metaPub, metaPriv>>

----------------------------------------------------------------------------
(* clean_orphaned_assets *)

AssetRoot == "build/assets"

\* fpath[13:]
StripLen == 13

\* The directories and files that may exist below build/assets.
DirNodes ==
    { [dir |-> "build/assets",   name |-> "a"],
      [dir |-> "build/assets/a", name |-> "b"],
      [dir |-> "build/assets",   name |-> "e"] }

FileNodes ==
    { [dir |-> "build/assets",     name |-> "t"],
      [dir |-> "build/assets/a",   name |-> "x"],
      [dir |-> "build/assets/a",   name |-> "y"],
      [dir |-> "build/assets/a/b", name |-> "z"],
      [dir |-> "build/assets/e",   name |-> "w"] }

NodePath(n) == Join(n.dir, n.name)
DirPaths == {NodePath(n) : n \in DirNodes}
FilePaths == {NodePath(n) : n \in FileNodes}

\* what the manifest files may declare (paths relative to build/assets)
ManifestEntries == {"a/x", "a/b/z", "e/w"}

ManifestFiles ==
    {[kind |-> "missing", entries |-> {}], [kind |-> "invalid", entries |-> {}]}
    \cup {[kind |-> "ok", entries |-> m] : m \in SUBSET ManifestEntries}

DirExists(d, re, ds) == IF d = AssetRoot THEN re ELSE d \in ds

\* a tree: every file and directory lies in an existing directory
WellFormed(re, ds, fs) ==
    /\ \A n \in DirNodes : NodePath(n) \in ds => DirExists(n.dir, re, ds)
    /\ \A n \in FileNodes : NodePath(n) \in fs => DirExists(n.dir, re, ds)

\* os.scandir(top): the names of the files, and of the directories, in top
FileNames(top) == {n.name : n \in {m \in FileNodes : m.dir = top /\ NodePath(m) \in files}}
DirNames(top) == {n.name : n \in {m \in DirNodes : m.dir = top /\ NodePath(m) \in dirs}}

\* faulty variant: the slice starts one character early: fpath[12:]
RelPathOffByOne(fpath) == SliceFrom(fpath, StripLen - 1)

\* fpathrel = fpath[13:]
RelPath(fpath) == SliceFrom(fpath, StripLen)

\* faulty variant: the loop gives up after its first deletion
IsOrphanOnlyFirst(fpath) == RelPath(fpath) \notin manifest /\ unlinked = {}

\* faulty variant: the membership test is dropped
IsOrphanAlways(fpath) == TRUE

\* fpathrel not in manifest
IsOrphan(fpath) == RelPath(fpath) \notin manifest

\* faulty variant: a manifest that cannot be read counts as empty
LoadOkIgnoringErrors == TRUE

\* json.loads of the two manifest files, merged
LoadOk == pubFile.kind = "ok" /\ privFile.kind = "ok"
LoadedManifest == pubFile.entries \cup privFile.entries

\* faulty variant: parents are visited before their children
FindOrderParentFirst == <<"build/assets", "build/assets/a", "build/assets/a/b", "build/assets/e">>

\* find -depth visits a directory after everything inside it
FindOrder == <<"build/assets/a/b", "build/assets/a", "build/assets/e", "build/assets">>

IsEmptyDir(d) ==
    /\ \A n \in FileNodes : n.dir = d => NodePath(n) \notin files
    /\ \A n \in DirNodes : n.dir = d => NodePath(n) \notin dirs

CleanCallIdle ==
    /\ pc = "idle"
    /\ err = ""
    /\ manifest = {}
    /\ stack = <<>>
    /\ curRoot = ""
    /\ pending = {}
    /\ pruneTodo = <<>>
    /\ run = 1
    /\ files0 = files
    /\ dirs0 = dirs
    /\ rootExists0 = rootExists
    /\ listed = {}
    /\ unlinked = {}
    /\ prevUnlinked = {}
    /\ envOps = 0
    /\ envMade = {}
    /\ unlinkedMade = {}

\* nothing below build/assets and no call of clean_orphaned_assets
CleanIdle ==
    /\ rootExists = FALSE
    /\ dirs = {}
    /\ files = {}
    /\ pubFile = [kind |-> "missing", entries |-> {}]
    /\ privFile = [kind |-> "missing", entries |-> {}]
    /\ CleanCallIdle

InitClean ==
    /\ StageIdle
    /\ PrereqIdle
    /\ rootExists \in BOOLEAN
    /\ dirs \in SUBSET DirPaths
    /\ files \in SUBSET FilePaths
    /\ WellFormed(rootExists, dirs, files)
    /\ pubFile \in ManifestFiles
    /\ privFile \in ManifestFiles
    /\ CleanCallIdle

fsVars == <<rootExists, dirs, files, pubFile, privFile>>
histVars == <<run, files0, dirs0, rootExists0, prevUnlinked, envOps, envMade>>

\* lines 141-152: chdir, read both manifests, start os.walk('build/assets')
CallClean ==
    /\ UNCHANGED unlinkedMade
    /\ UNCHANGED notCleanVars
    /\ pc = "idle"
    /\ IF LoadOk
         THEN /\ manifest' = LoadedManifest
              /\ stack' = <<AssetRoot>>
              /\ pc' = "walk"
              /\ err' = ""
         ELSE /\ manifest' = {}
              /\ stack' = <<>>
              /\ pc' = "error"
              /\ err' = "manifest"
    /\ UNCHANGED <<fsVars, histVars, curRoot, pending, pruneTodo, listed, unlinked>>

\* os.walk lists the next directory and yields (root, dirs, fnames); a
\* directory it cannot list is skipped (onerror is None)
WalkDir ==
    /\ UNCHANGED unlinkedMade
    /\ UNCHANGED notCleanVars
    /\ pc = "walk"
    /\ stack # <<>>
    /\ LET top == Head(stack) IN
         IF DirExists(top, rootExists, dirs)
           THEN \E order \in Orders(DirNames(top)) :
                  /\ curRoot' = top
                  /\ pending' = FileNames(top)
                  /\ listed' = listed \cup {Join(top, f) : f \in FileNames(top)}
                  /\ stack' = [i \in 1..Len(order) |-> Join(top, order[i])] \o Tail(stack)
                  /\ pc' = IF FileNames(top) = {} THEN "walk" ELSE "files"
           ELSE /\ stack' = Tail(stack)
                /\ UNCHANGED <<curRoot, pending, listed, pc>>
    /\ UNCHANGED <<fsVars, histVars, err, manifest, pruneTodo, unlinked>>

\* lines 153-158: one fname of the triple
VisitFile ==
    /\ UNCHANGED notCleanVars
    /\ pc = "files"
    /\ \E fname \in pending :
         LET fpath == Join(curRoot, fname) IN
           /\ pending' = pending \ {fname}
           /\ IF IsOrphan(fpath)
                THEN IF fpath \in files
                       THEN /\ files' = files \ {fpath}
                            /\ unlinked' = unlinked \cup {fpath}
                            /\ unlinkedMade' = unlinkedMade \cup ({fpath} \cap envMade)
                            /\ envMade' = envMade \ {fpath}
                            /\ pc' = IF pending' = {} THEN "walk" ELSE "files"
                            /\ err' = err
                       ELSE \* os.unlink raises FileNotFoundError
                            /\ pc' = "error"
                            /\ err' = "unlink"
                            /\ UNCHANGED <<files, unlinked, unlinkedMade, envMade>>
                ELSE /\ pc' = IF pending' = {} THEN "walk" ELSE "files"
                     /\ UNCHANGED <<files, unlinked, unlinkedMade, envMade, err>>
    /\ UNCHANGED <<rootExists, dirs, pubFile, privFile, run, files0, dirs0,
                   rootExists0, prevUnlinked, envOps, manifest, stack, curRoot,
                   pruneTodo, listed>>

\* lines 161-165: the walk is over, find starts; it fails at once when
\* build/assets does not exist, and check=True raises
RunFind ==
    /\ UNCHANGED unlinkedMade
    /\ UNCHANGED notCleanVars
    /\ pc = "walk"
    /\ stack = <<>>
    /\ IF rootExists
         THEN /\ pc' = "prune"
              /\ pruneTodo' = FindOrder
              /\ err' = err
         ELSE /\ pc' = "error"
              /\ err' = "find"
              /\ pruneTodo' = <<>>
    /\ UNCHANGED <<fsVars, histVars, manifest, stack, curRoot, pending, listed, unlinked>>

\* find -depth -empty -type d -delete at one directory
PruneDir ==
    /\ UNCHANGED unlinkedMade
    /\ UNCHANGED notCleanVars
    /\ pc = "prune"
    /\ pruneTodo # <<>>
    /\ LET d == Head(pruneTodo) IN
         /\ pruneTodo' = Tail(pruneTodo)
         /\ IF DirExists(d, rootExists, dirs) /\ IsEmptyDir(d)
              THEN /\ dirs' = dirs \ {d}
                   /\ rootExists' = IF d = AssetRoot THEN FALSE ELSE rootExists
              ELSE UNCHANGED <<dirs, rootExists>>
         /\ pc' = IF pruneTodo' = <<>> THEN "done" ELSE "prune"
    /\ UNCHANGED <<files, pubFile, privFile, histVars, err, manifest, stack,
                   curRoot, pending, listed, unlinked>>

\* the command is run again
NextRun ==
    /\ UNCHANGED notCleanVars
    /\ pc \in {"done", "error"}
    /\ run < MaxRuns
    /\ run' = run + 1
    /\ pc' = "idle"
    /\ err' = ""
    /\ manifest' = {}
    /\ stack' = <<>>
    /\ curRoot' = ""
    /\ pending' = {}
    /\ pruneTodo' = <<>>
    /\ files0' = files
    /\ dirs0' = dirs
    /\ rootExists0' = rootExists
    /\ listed' = {}
    /\ unlinked' = {}
    /\ prevUnlinked' = unlinked
    /\ envMade' = {}
    /\ unlinkedMade' = {}
    /\ UNCHANGED <<fsVars, envOps>>

NextClean ==
    \/ CallClean
    \/ WalkDir
    \/ VisitFile
    \/ RunFind
    \/ PruneDir
    \/ NextRun

NextStage ==
    \/ StageBadArgs
    \/ StageMakeFails
    \/ StageUpToDate
    \/ StageRebuilt

InitStageOnly ==
    /\ InitStage
    /\ CleanIdle
    /\ PrereqIdle

SpecStage == InitStageOnly /\ [][NextStage]_vars

NextPrereq ==
    \/ CallPrereqs
    \/ Fetch

InitPrereqOnly ==
    /\ InitPrereq
    /\ CleanIdle
    /\ StageIdle

SpecPrereq == InitPrereqOnly /\ [][NextPrereq]_vars

SpecClean == InitClean /\ [][NextClean]_vars

----------------------------------------------------------------------------
(* clean_orphaned_assets beside other processes that write below           *)
(* build/assets, and with unlink calls that the system may refuse.         *)

\* both manifests load, and overlap in a/x
InitRace ==
    /\ InitClean
    /\ rootExists
    /\ pubFile.kind = "ok"
    /\ privFile.kind = "ok"
    /\ pubFile.entries \subseteq {"a/x"}
    /\ privFile.entries \subseteq {"a/x", "e/w"}

Running == pc \in {"walk", "files", "prune"}

\* another process creates a file in an existing directory
EnvCreate ==
    /\ UNCHANGED unlinkedMade
    /\ UNCHANGED notCleanVars
    /\ Running
    /\ envOps < MaxEnvOps
    /\ \E n \in FileNodes :
         /\ NodePath(n) \notin files
         /\ DirExists(n.dir, rootExists, dirs)
         /\ files' = files \cup {NodePath(n)}
         /\ envMade' = IF curRoot # "" /\ NodePath(n) \notin listed
                          THEN envMade \cup {NodePath(n)}
                          ELSE envMade
    /\ envOps' = envOps + 1
    /\ UNCHANGED <<rootExists, dirs, pubFile, privFile, pc, err, manifest, stack,
                   curRoot, pending, pruneTodo, run, files0, dirs0, rootExists0,
                   listed, unlinked, prevUnlinked>>

\* another process deletes or renames a file
EnvRemove ==
    /\ UNCHANGED unlinkedMade
    /\ UNCHANGED notCleanVars
    /\ Running
    /\ envOps < MaxEnvOps
    /\ \E f \in files :
         /\ files' = files \ {f}
         /\ envMade' = envMade \ {f}
    /\ envOps' = envOps + 1
    /\ UNCHANGED <<rootExists, dirs, pubFile, privFile, pc, err, manifest, stack,
                   curRoot, pending, pruneTodo, run, files0, dirs0, rootExists0,
                   listed, unlinked, prevUnlinked>>

\* line 158: os.unlink raises PermissionError
UnlinkDenied ==
    /\ UNCHANGED unlinkedMade
    /\ UNCHANGED notCleanVars
    /\ pc = "files"
    /\ \E fname \in pending :
         /\ IsOrphan(Join(curRoot, fname))
         /\ Join(curRoot, fname) \in files
         /\ pending' = pending \ {fname}
    /\ pc' = "error"
    /\ err' = "unlink"
    /\ UNCHANGED <<fsVars, histVars, manifest, stack, curRoot, pruneTodo, listed,
                   unlinked>>

NextRace ==
    \/ CallClean
    \/ WalkDir
    \/ VisitFile
    \/ RunFind
    \/ PruneDir
    \/ EnvCreate
    \/ EnvRemove
    \/ UnlinkDenied

SpecRace == InitRace /\ [][NextRace]_vars

----------------------------------------------------------------------------
(* Properties of clean_orphaned_assets *)

\* the file at build/assets/<m> for an entry m of either manifest file
Declared(f) == \E m \in pubFile.entries \cup privFile.entries : f = Join(AssetRoot, m)

InSubtree(f, d) == StartsWith(f, d \o "/")

TreeUntouched ==
    /\ files = files0
    /\ dirs = dirs0
    /\ rootExists = rootExists0

\* C1: a call that does not fail has unlinked exactly the files present at
\* its start whose path relative to build/assets is in neither manifest, and
\* every file that either manifest declares is still there.
C1_ExactOrphans ==
    pc \in {"prune", "done"} =>
        /\ unlinked = {f \in files0 : ~Declared(f)}
        /\ files = {f \in files0 : Declared(f)}

C1_Witness ==
    /\ pc = "done"
    /\ unlinked # {}
    /\ \E f \in files : f = Join(AssetRoot, "a/b/z") /\ "a/b/z" \notin pubFile.entries
    /\ \E f \in files : f = Join(AssetRoot, "e/w") /\ "e/w" \notin privFile.entries
    /\ Join(AssetRoot, "t") \in unlinked

\* C5: after a call that does not fail, a directory below build/assets is
\* gone when no file is left anywhere inside it, parents emptied by the
\* removal of their children included, and is kept when a file is left.
C5_PruneEmptyDirs ==
    pc = "done" =>
        \A d \in DirPaths :
            d \in dirs <=> (d \in dirs0 /\ \E f \in files : InSubtree(f, d))

C5_Witness ==
    /\ pc = "done"
    /\ {"build/assets/a", "build/assets/a/b", "build/assets/e"} \subseteq dirs0
    /\ Join(AssetRoot, "a/b/z") \in unlinked
    /\ "build/assets/a" \notin dirs
    /\ "build/assets/a/b" \notin dirs
    /\ "build/assets/e" \in dirs

C8_Idempotent ==
    run >= 2 => (unlinked = {} /\ TreeUntouched)

C8_Witness ==
    /\ run = 2
    /\ pc = "done"
    /\ prevUnlinked # {}
    /\ files # {}
    /\ dirs # {}

\* C4 (as claimed): an unlink that fails never ends the call in an error.
C4_UnlinkFailureSkipped == ~(pc = "error" /\ err = "unlink")

\* C10 (as claimed): no file that another process created after the walk
\* started is unlinked by the call.
C10_CreatedNeverUnlinked == unlinkedMade = {}

\* C10 (amended): the call unlinks only paths that os.walk listed and that
\* neither manifest declares; a file created where os.walk has already
\* listed is left alone, and no declared file is ever unlinked.
C10_OnlyListedOrphansUnlinked ==
    /\ unlinked \subseteq listed
    /\ \A f \in unlinked : ~Declared(f)

C10_Witness ==
    /\ pc = "done"
    /\ unlinked # {}
    /\ \E f \in envMade : f \in files /\ ~Declared(f) /\ f \notin listed
    /\ \E f \in files : Declared(f)

----------------------------------------------------------------------------
(* Properties of update_cmake_prefab_lib *)

ReachedCompare == stOutcome \in {"copied", "cpfail", "skipped"}

\* C2: a call that gets as far as comparing the times runs cp exactly when
\* the library in prefablib is missing or has an mtime below the target's;
\* otherwise nothing in prefablib changes; prefablib exists once cp has run.
C2_CopyIffStale ==
    ReachedCompare =>
        /\ stOutcome \in {"copied", "cpfail"}
               <=> (~stDst.exists \/ stDst.mtime < stSrc.mtime)
        /\ stOutcome = "skipped" => (dst = stDst /\ libdirExists = stLibdir)
        /\ stOutcome = "copied" => (libdirExists /\ dst.exists /\ dst.ver = stSrc.ver)

C2_Witness ==
    /\ stOutcome = "copied"
    /\ stPrev = "skipped"
    /\ stDst.exists
    /\ stDst.mtime < stSrc.mtime
    /\ stDst.ver # stSrc.ver

\* C9: after a call that copied, the library in prefablib exists with an
\* mtime not below the target's, and the next call, when make leaves the
\* target alone, copies nothing.
C9_StageIdempotent ==
    /\ stOutcome = "copied" =>
          (dst.exists /\ dst.mtime >= src.mtime /\ dst.ver = src.ver)
    /\ (stPrev = "copied" /\ ReachedCompare /\ ~stRebuilt) => stOutcome = "skipped"

C9_Witness ==
    /\ stPrev = "copied"
    /\ stOutcome = "skipped"
    /\ ~stRebuilt
    /\ dst.mtime = src.mtime

----------------------------------------------------------------------------
(* Properties of win_ci_install_prereqs *)

\* the entries of MetaTargets that lie in a generated-source or a
\* generated-module directory
GeneratedTargets ==
    {"src/ballistica/base/mgen/a.h", "src/assets/ba_data/python/ba/_mgen/e.py"}

Listed(metaFile) == {metaFile.entries[i] : i \in DOMAIN metaFile.entries}

\* C3: a call in which no fetch fails has called get_target once for every
\* fixed target and every listed entry of a generated directory, and never
\* for anything else.
C3_FetchExactlyNeeded ==
    ppc = "done" =>
        \A t \in AllTargets :
            fetched[t] =
                IF t \in FixedTargets
                     \/ (t \in GeneratedTargets /\ t \in Listed(metaPub) \cup Listed(metaPriv))
                  THEN 1 ELSE 0

C3_Witness ==
    /\ ppc = "done"
    /\ "src/ballistica/base/mgen/a.h" \in Listed(metaPub) \cap Listed(metaPriv)
    /\ "src/ballistica/base/a.cc" \in Listed(metaPub)
    /\ "ballisticakit-windows/Generic/BallisticaKit.ico" \in Listed(metaPriv)

\* C6: once a get_target has raised, the call has ended in an error and no
\* further get_target is started.
C6_FetchFailureFatal ==
    failed # {} =>
        /\ ppc = "error"
        /\ perr = "fetch"
        /\ Cardinality(failed) = 1
        /\ lateFetches = 0

C6_Witness ==
    /\ ppc = "error"
    /\ perr = "fetch"
    /\ todo # {}
    /\ \E t \in AllTargets : fetched[t] = 1 /\ t \notin failed

====
